---- MODULE Spec2Model ----
(***************************************************************************)
(* Objection detection pipeline of callcenter-objections:                  *)
(*   - the regex detector          (src/detector.py)                       *)
(*   - the semantic detector       (src/embedding.py)                      *)
(*   - the LLM validator           (src/llm_check.py)                      *)
(*   - the conversation analyzer   (src/analyzer.py)                        *)
(* and, each under a specification of its own, the functions segment_turn  *)
(* and regex_to_phrase of src/embedding.py.                                *)
(* Texts are sequences of one-character strings.  Python's None is the     *)
(* empty sequence <<>> where a value is Optional, and an attribute slot    *)
(* [st, v] where an attribute can be present, None or absent.              *)
(***************************************************************************)
EXTENDS Integers, Sequences, FiniteSets, TLC

VARIABLES
    \* ---- regex detector (src/detector.py) ----
    rules,           \* ObjectionDetector.rules: type -> category -> patterns
    turns,           \* argument turns of detect_in_conversation
    client_speaker,  \* argument client_speaker (<<>> is None)
    dpc,             \* position of detect_in_conversation
    i,               \* number of turns the for loop has consumed
    all_objections,  \* local all_objections
    returned,        \* value handed to the caller (<<>> until the return)
    lastDetect,      \* the last detect_in_text call: text, result, re.search calls
    \* ---- semantic detector (src/embedding.py) ----
    catalog,         \* ObjectionEmbeddingDetector.catalog
    embedder,        \* the loaded sentence-embedding model
    window_size,     \* settings.SENTENCE_WINDOW_SIZE
    overlap,         \* settings.SENTENCE_OVERLAP
    folder,          \* the .txt files of the folder: name -> content
    threshold,       \* argument threshold of process_folder (<<>> is None)
    fpc,             \* position of process_folder
    txt_files,       \* local txt_files
    fi,              \* position of the loop over txt_files
    all_detections,  \* local all_detections
    sem_returned,    \* value process_folder hands to the caller
    ti,              \* turns of the current file process_transcription has consumed
    results,         \* local results of process_transcription
    chunks_processed,
    chunks_discarded,
    semCalls,        \* the detect_objection_semantic calls of the last turn
    error_log,       \* the files whose "[ERROR]" line process_folder printed
    \* ---- LLM validator (src/llm_check.py) ----
    detections,      \* argument detections of process_detections
    lpc,             \* position of process_detections
    li,              \* detections the for loop has consumed
    validated_results,
    requests,        \* the invoke_model calls made, each with the service's answer
    validations,     \* what each validate_objection call did: returned or raised
    llm_returned,    \* rows of the DataFrame handed to the caller
    \* ---- segment_turn called on its own (src/embedding.py) ----
    seg_sents,       \* the texts of doc.sents for the argument text
    seg_result,      \* <<>> until segment_turn has run, then what it did
    \* ---- regex_to_phrase called on its own (src/embedding.py) ----
    pattern_in,      \* argument regex_pattern
    phrase_out,      \* <<>> until regex_to_phrase has run, then its result
    phrase_again,    \* <<>> until regex_to_phrase has run on its own result
    \* ---- conversation analyzer (src/analyzer.py) ----
    file_paths,      \* argument file_paths of analyze_multiple_files: the files' contents
    client_arg,      \* argument client_speaker of analyze_multiple_files
    an_settings,     \* the ANALYSIS_* settings
    apc,             \* position of analyze_multiple_files
    ai,              \* files the comprehension has consumed
    reports,         \* the reports built so far
    an_objections,   \* local objections of each analyze_file call
    an_returned,     \* value analyze_multiple_files hands to the caller
    summary          \* <<>> until get_summary_statistics has run, then its result

regexVars == <<rules, turns, client_speaker, dpc, i, all_objections, returned, lastDetect>>

semVars == <<catalog, embedder, window_size, overlap, folder, threshold, fpc, txt_files,
             fi, all_detections, sem_returned, ti, results, chunks_processed,
             chunks_discarded, semCalls, error_log>>

llmVars == <<detections, lpc, li, validated_results, requests, validations, llm_returned>>

segVars == <<seg_sents, seg_result>>

phraseVars == <<pattern_in, phrase_out, phrase_again>>

anVars == <<file_paths, client_arg, an_settings, apc, ai, reports, an_objections,
            an_returned, summary>>

vars == <<regexVars, semVars, llmVars, segVars, phraseVars, anVars>>

\* What the actions of one component leave alone.
exceptRegex == <<semVars, llmVars, segVars, phraseVars, anVars>>

exceptSem == <<regexVars, llmVars, segVars, phraseVars, anVars>>

exceptLlm == <<regexVars, semVars, segVars, phraseVars, anVars>>

exceptSeg == <<regexVars, semVars, llmVars, phraseVars, anVars>>

exceptPhrase == <<regexVars, semVars, llmVars, segVars, anVars>>

exceptAn == <<semVars, llmVars, segVars, phraseVars>>

(***************************************************************************)
(* Bounds of the model                                                     *)
(***************************************************************************)
MaxTurns == 4
MaxTextLen == 3
MaxFiles == 3
MaxScore == 8
MaxDetections == 3
MaxSentences == 5
MaxPatternLen == 4
MaxReports == 3

(***************************************************************************)
(* Generic helpers                                                         *)
(***************************************************************************)
Some(v) == <<v>>
None == <<>>
IsNone(o) == o = <<>>

RECURSIVE Flatten(_)
Flatten(ss) == IF ss = <<>> THEN <<>> ELSE Head(ss) \o Flatten(Tail(ss))

Prefix(s, n) == SubSeq(s, 1, IF Len(s) < n THEN Len(s) ELSE n)

SeqsUpTo(S, n) == UNION {[1..k -> S] : k \in 0..n}

(***************************************************************************)
(* Attribute slots of a Turn (src/models.py)                               *)
(***************************************************************************)
Ok(v) == [st |-> "ok", v |-> v]
IsAbsent(slot) == slot.st = "absent"

(***************************************************************************)
(* normalize_text                                                          *)
(***************************************************************************)
Alphabet == {"a", "b", "c", "Á"}

LowerChar(c) ==
    CASE c = "A" -> "a"
      [] c = "B" -> "b"
      [] c = "C" -> "c"
      [] c = "Á" -> "á"
      [] OTHER -> c

UnaccentChar(c) == IF c \in {"á", "à", "ä", "â"} THEN "a" ELSE c

normalize_text(text) == [k \in 1..Len(text) |-> UnaccentChar(LowerChar(text[k]))]

(***************************************************************************)
(* Pattern catalog and settings read by the regex detector.  A pattern is  *)
(* a literal text; re.search of a literal is a substring search.           *)
(***************************************************************************)
CatalogA ==
    << [type |-> "precio",
        categories |-> << [category |-> "alta", patterns |-> << <<"a", "b">>, <<"a">>, <<"b">> >>],
                          [category |-> "baja", patterns |-> << <<"c">>, <<"a">> >>] >>],
       [type |-> "tiempo",
        categories |-> << [category |-> "alta", patterns |-> << <<"b">>, <<"b", "c">> >>] >>] >>

CatalogB ==
    << [type |-> "precio",
        categories |-> << [category |-> "media", patterns |-> << <<"A">>, <<"b", "a">>, <<"a">>, <<"a", "b">> >>],
                          [category |-> "vacia", patterns |-> << >>] >>] >>

CatalogC ==
    << [type |-> "confianza",
        categories |-> << [category |-> "alta", patterns |-> << <<"c", "c">>, <<>>, <<"a">> >>] >>],
       [type |-> "precio",
        categories |-> << [category |-> "baja", patterns |-> << <<"á">>, <<"b">>, <<"a", "a">> >>] >>] >>

Catalogs == {CatalogA, CatalogB, CatalogC}

\* A catalog whose two types match different texts.
CatalogD ==
    << [type |-> "precio",
        categories |-> << [category |-> "alta", patterns |-> << <<"a">> >>] >>],
       [type |-> "tiempo",
        categories |-> << [category |-> "media", patterns |-> << <<"d">> >>] >>] >>

INTENSITY_MAP == [alta |-> 3, media |-> 2]

CLIENT_SPEAKER_DEFAULT == 2

CONTEXT_WINDOW_SIZE == 2

IntensityOf(category) ==
    IF category \in DOMAIN INTENSITY_MAP THEN INTENSITY_MAP[category] ELSE 1

(***************************************************************************)
(* detect_in_text                                                          *)
(***************************************************************************)
\* re.search(pattern, normalized) is not None
Search(pattern, normalized) ==
    \E k \in 1..(Len(normalized) - Len(pattern) + 1) :
        SubSeq(normalized, k, k + Len(pattern) - 1) = pattern

Objection(obj_type, category, pattern, call) ==
    [type |-> obj_type,
     intensity |-> IntensityOf(category),
     matched_text |-> pattern,
     pattern |-> pattern,
     timestamp |-> call.timestamp,
     speaker |-> call.speaker,
     full_text |-> call.text,
     context_before |-> call.context_before,
     context_after |-> call.context_after]

\* The innermost loop written without its break: every matching pattern of
\* the category appends an Objection.
RECURSIVE ScanPatternsNoBreak(_, _, _, _, _)
ScanPatternsNoBreak(t, c, k, normalized, call) ==
    LET patterns == rules[t].categories[c].patterns IN
    IF k > Len(patterns) THEN [objections |-> <<>>, searched |-> <<>>]
    ELSE LET hit == Search(patterns[k], normalized)
             entry == [t |-> t, c |-> c, k |-> k, hit |-> hit]
             rest == ScanPatternsNoBreak(t, c, k + 1, normalized, call)
         IN [objections |->
                (IF hit
                 THEN <<Objection(rules[t].type, rules[t].categories[c].category,
                                  patterns[k], call)>>
                 ELSE <<>>) \o rest.objections,
             searched |-> <<entry>> \o rest.searched]

\* for pattern in patterns: ... break.  Patterns k.. of category c of type t;
\* searched lists the re.search calls made, in call order.
RECURSIVE ScanPatterns(_, _, _, _, _)
ScanPatterns(t, c, k, normalized, call) ==
    LET patterns == rules[t].categories[c].patterns IN
    IF k > Len(patterns) THEN [objections |-> <<>>, searched |-> <<>>]
    ELSE LET hit == Search(patterns[k], normalized)
             entry == [t |-> t, c |-> c, k |-> k, hit |-> hit]
         IN IF hit
            THEN [objections |->
                      <<Objection(rules[t].type, rules[t].categories[c].category,
                                  patterns[k], call)>>,
                  searched |-> <<entry>>]
            ELSE LET rest == ScanPatterns(t, c, k + 1, normalized, call)
                 IN [objections |-> rest.objections,
                     searched |-> <<entry>> \o rest.searched]

\* call = [text, timestamp, speaker, context_before, context_after]
detect_in_text(call) ==
    LET normalized == normalize_text(call.text)
        perCat(t, c) == ScanPatterns(t, c, 1, normalized, call)
        cats(t) == 1..Len(rules[t].categories)
    IN [objections |->
            Flatten([t \in 1..Len(rules) |->
                Flatten([c \in cats(t) |-> perCat(t, c).objections])]),
        searched |->
            Flatten([t \in 1..Len(rules) |->
                Flatten([c \in cats(t) |-> perCat(t, c).searched])])]

(***************************************************************************)
(* detect_in_conversation                                                  *)
(***************************************************************************)
\* if client_speaker is None: client_speaker = CLIENT_SPEAKER_DEFAULT
ClientSpeaker ==
    IF IsNone(client_speaker) THEN CLIENT_SPEAKER_DEFAULT ELSE client_speaker[1]

\* The value Python reads from an attribute that is present: None is <<>>.
PyVal(slot) == IF slot.st = "ok" THEN Some(slot.v) ELSE None

\* turn.speaker_num == client_speaker, wrongly tested with !=
IsClientTurnNegated(turn) ==
    ~ (turn.speaker_num.st = "ok" /\ turn.speaker_num.v = ClientSpeaker)

\* turn.speaker_num == client_speaker (None equals no speaker number)
IsClientTurn(turn) ==
    turn.speaker_num.st = "ok" /\ turn.speaker_num.v = ClientSpeaker

\* The context of turn n read from the turn itself instead of its neighbour.
ContextOfSelf(n, m) == Prefix(turns[n].text.v, CONTEXT_WINDOW_SIZE)

\* turns[m].text[:CONTEXT_WINDOW_SIZE] for the neighbour m of turn n, "" at
\* the ends of the conversation
ContextOf(n, m) ==
    IF m < 1 \/ m > Len(turns) THEN <<>>
    ELSE Prefix(turns[m].text.v, CONTEXT_WINDOW_SIZE)

\* The loop body for turn n raises: AttributeError on an absent attribute,
\* TypeError on None[:N], AttributeError on None.lower().
TurnRaises(n) ==
    LET turn == turns[n] IN
    \/ IsAbsent(turn.speaker_num)
    \/ /\ IsClientTurn(turn)
       /\ \/ n > 1 /\ turns[n - 1].text.st # "ok"
          \/ n < Len(turns) /\ turns[n + 1].text.st # "ok"
          \/ turn.text.st # "ok"
          \/ IsAbsent(turn.timestamp)
          \/ IsAbsent(turn.speaker)

CallOf(n) ==
    [text |-> turns[n].text.v,
     timestamp |-> PyVal(turns[n].timestamp),
     speaker |-> PyVal(turns[n].speaker),
     context_before |-> ContextOf(n, n - 1),
     context_after |-> ContextOf(n, n + 1)]

NoDetect == [called |-> FALSE, text |-> <<>>, objections |-> <<>>, searched |-> <<>>]

\* detect_in_conversation is called: lines 123-126
EnterDetect ==
    /\ dpc = "idle"
    /\ dpc' = "loop"
    /\ i' = 0
    /\ all_objections' = <<>>
    /\ UNCHANGED <<rules, turns, client_speaker, returned, lastDetect>>
    /\ UNCHANGED exceptRegex

\* One iteration of the for loop (lines 128-145); an exception leaves the
\* function without a return value.
ScanTurn ==
    /\ dpc = "loop"
    /\ i < Len(turns)
    /\ LET n == i + 1 IN
       \/ /\ TurnRaises(n)
          /\ dpc' = "raised"
          /\ UNCHANGED <<i, all_objections, lastDetect>>
       \/ /\ ~ TurnRaises(n)
          /\ ~ IsClientTurn(turns[n])
          /\ i' = n
          /\ UNCHANGED <<dpc, all_objections, lastDetect>>
       \/ /\ ~ TurnRaises(n)
          /\ IsClientTurn(turns[n])
          /\ LET r == detect_in_text(CallOf(n)) IN
             /\ all_objections' = all_objections \o r.objections
             /\ lastDetect' = [called |-> TRUE, text |-> turns[n].text.v,
                               objections |-> r.objections, searched |-> r.searched]
          /\ i' = n
          /\ UNCHANGED dpc
    /\ UNCHANGED <<rules, turns, client_speaker, returned>>
    /\ UNCHANGED exceptRegex

\* return all_objections (line 147)
ReturnDetect ==
    /\ dpc = "loop"
    /\ i = Len(turns)
    /\ dpc' = "done"
    /\ returned' = Some(all_objections)
    /\ UNCHANGED <<rules, turns, client_speaker, i, all_objections, lastDetect>>
    /\ UNCHANGED exceptRegex

(***************************************************************************)
(* Phrase catalog of the semantic detector (src/embedding.py)              *)
(***************************************************************************)
StartsWith(s, p) == Len(s) >= Len(p) /\ SubSeq(s, 1, Len(p)) = p

DropN(s, n) == SubSeq(s, n + 1, Len(s))

IsSpace(c) == c \in {" ", "\t", "\n"}

\* re.sub(r"\\b", "", phrase)
RECURSIVE RemoveWordBoundary(_)
RemoveWordBoundary(s) ==
    IF s = <<>> THEN <<>>
    ELSE IF StartsWith(s, <<"\\", "b">>) THEN RemoveWordBoundary(DropN(s, 2))
    ELSE <<Head(s)>> \o RemoveWordBoundary(Tail(s))

\* re.sub(r"\(\?:.*?\)", "", phrase): from "(?:" to the first ")" after it
\* ("." does not cross a line break)
RECURSIVE RemoveNonCapturing(_)
RemoveNonCapturing(s) ==
    IF s = <<>> THEN <<>>
    ELSE LET ends == {j \in 4..Len(s) :
                         /\ s[j] = ")"
                         /\ \A x \in 4..(j - 1) : s[x] # "\n"}
         IN IF StartsWith(s, <<"(", "?", ":">>) /\ ends # {}
            THEN RemoveNonCapturing(DropN(s, CHOOSE j \in ends : \A j2 \in ends : j <= j2))
            ELSE <<Head(s)>> \o RemoveNonCapturing(Tail(s))

\* re.sub(r"\(.*?\?\)", "", phrase): from "(" to the first "?)" after it
RECURSIVE RemoveOptionalGroup(_)
RemoveOptionalGroup(s) ==
    IF s = <<>> THEN <<>>
    ELSE LET ends == {j \in 2..(Len(s) - 1) :
                         /\ s[j] = "?" /\ s[j + 1] = ")"
                         /\ \A x \in 2..(j - 1) : s[x] # "\n"}
         IN IF Head(s) = "(" /\ ends # {}
            THEN RemoveOptionalGroup(DropN(s, (CHOOSE j \in ends : \A j2 \in ends : j <= j2) + 1))
            ELSE <<Head(s)>> \o RemoveOptionalGroup(Tail(s))

\* The alternation bar left in place.
BlankSyntaxKeepBar(s) ==
    [k \in 1..Len(s) |-> IF s[k] \in {"\\", "(", ")", "?"} THEN " " ELSE s[k]]

\* re.sub(r"[\\\(\)\?\|]", " ", phrase)
BlankSyntax(s) ==
    [k \in 1..Len(s) |-> IF s[k] \in {"\\", "(", ")", "?", "|"} THEN " " ELSE s[k]]

\* re.sub(r"\s+", " ", phrase)
RECURSIVE CollapseSpaces(_)
CollapseSpaces(s) ==
    IF s = <<>> THEN <<>>
    ELSE IF IsSpace(Head(s))
         THEN IF Len(s) > 1 /\ IsSpace(s[2]) THEN CollapseSpaces(Tail(s))
              ELSE <<" ">> \o CollapseSpaces(Tail(s))
         ELSE <<Head(s)>> \o CollapseSpaces(Tail(s))

\* str.strip()
RECURSIVE Strip(_)
Strip(s) ==
    IF s = <<>> THEN <<>>
    ELSE IF IsSpace(Head(s)) THEN Strip(Tail(s))
    ELSE IF IsSpace(s[Len(s)]) THEN Strip(SubSeq(s, 1, Len(s) - 1))
    ELSE s

regex_to_phrase(regex_pattern) ==
    Strip(CollapseSpaces(BlankSyntax(RemoveOptionalGroup(
        RemoveNonCapturing(RemoveWordBoundary(regex_pattern))))))

\* The comprehension of build_objection_catalog: the outer key of
\* OBJECTION_PATTERNS is bound to "category", the inner key to "obj_type".
build_objection_catalog(patterns_by_key) ==
    LET entry(t, c, k) ==
            LET frase == regex_to_phrase(patterns_by_key[t].categories[c].patterns[k]) IN
            IF frase = <<>> THEN <<>>
            ELSE <<[frase |-> frase,
                    categoria |-> patterns_by_key[t].type,
                    tipo |-> patterns_by_key[t].categories[c].category]>>
    IN Flatten([t \in 1..Len(patterns_by_key) |->
           Flatten([c \in 1..Len(patterns_by_key[t].categories) |->
               Flatten([k \in 1..Len(patterns_by_key[t].categories[c].patterns) |->
                   entry(t, c, k)])])])

(***************************************************************************)
(* Settings read by the semantic detector.  A similarity is an integer     *)
(* number of quarter-thousandths, so that round(similarity, 3) rounds to   *)
(* a multiple of RoundUnit.                                                *)
(***************************************************************************)
RoundUnit == 4

SIMILARITY_THRESHOLD == 6

MIN_SENTENCE_LENGTH == 1

MIN_CHUNK_WORDS == 2

IRRELEVANT_PHRASES == { <<"a", " ", "a">> }

(***************************************************************************)
(* segment_turn and is_relevant                                            *)
(***************************************************************************)
\* len(phrase.split())
RECURSIVE WordCount(_)
WordCount(s) ==
    IF s = <<>> THEN 0
    ELSE IF IsSpace(Head(s)) THEN WordCount(Tail(s))
    ELSE IF Len(s) > 1 /\ ~ IsSpace(s[2]) THEN WordCount(Tail(s))
    ELSE 1 + WordCount(Tail(s))

\* str.lower()
Lower(s) == [k \in 1..Len(s) |-> LowerChar(s[k])]

is_relevant(phrase) ==
    IF Strip(Lower(phrase)) \in IRRELEVANT_PHRASES THEN FALSE
    ELSE IF WordCount(phrase) < MIN_CHUNK_WORDS THEN FALSE
    ELSE TRUE

\* " ".join(parts)
RECURSIVE Join(_)
Join(parts) ==
    IF parts = <<>> THEN <<>>
    ELSE IF Len(parts) = 1 THEN parts[1]
    ELSE parts[1] \o <<" ">> \o Join(Tail(parts))

\* sentences[a:b] for 0 <= a <= b (Python slice, 0-based, b exclusive)
Slice(seq, a, b) == SubSeq(seq, a + 1, IF b > Len(seq) THEN Len(seq) ELSE b)

\* list(range(0, n, step)) for step # 0
RangeFrom0(n, step) ==
    IF step < 0 THEN <<>>
    ELSE [k \in 1..((n + step - 1) \div step) |-> (k - 1) * step]

\* The sentences kept by the comprehension of lines 158-162; sents are the
\* texts of doc.sents.
RetainedSentences(sents) ==
    LET stripped == [k \in 1..Len(sents) |-> Strip(sents[k])]
    IN SelectSeq(stripped, LAMBDA x : Len(x) > MIN_SENTENCE_LENGTH)

\* segment_turn for a text that nlp splits into sents; range() raises
\* ValueError for a step of zero.
segment_turn(sents) ==
    LET sentences == RetainedSentences(sents)
        step == window_size - overlap
    IN IF step = 0 THEN [raised |-> TRUE, sentences |-> sentences, chunks |-> <<>>]
       ELSE LET starts == RangeFrom0(Len(sentences), step)
                chunkAt(k) == Join(Slice(sentences, starts[k], starts[k] + window_size))
            IN [raised |-> FALSE,
                sentences |-> sentences,
                chunks |-> SelectSeq([k \in 1..Len(starts) |-> chunkAt(k)], is_relevant)]

\* segment_turn called on its own
SegmentTurn ==
    /\ IsNone(seg_result)
    /\ seg_result' = Some(segment_turn(seg_sents))
    /\ UNCHANGED <<seg_sents, exceptSeg>>

\* regex_to_phrase called on its own
ToPhrase ==
    /\ IsNone(phrase_out)
    /\ phrase_out' = Some(regex_to_phrase(pattern_in))
    /\ UNCHANGED <<pattern_in, phrase_again, exceptPhrase>>

\* regex_to_phrase called on the phrase it returned
ToPhraseAgain ==
    /\ ~ IsNone(phrase_out)
    /\ IsNone(phrase_again)
    /\ phrase_again' = Some(regex_to_phrase(phrase_out[1]))
    /\ UNCHANGED <<pattern_in, phrase_out, exceptPhrase>>

(***************************************************************************)
(* detect_objection_semantic                                               *)
(***************************************************************************)
CharCode(c) ==
    CASE c = "a" -> 1
      [] c = "b" -> 2
      [] c = "A" -> 3
      [] OTHER -> 0

RECURSIVE Weight(_)
Weight(text) == IF text = <<>> THEN 0 ELSE CharCode(Head(text)) + Weight(Tail(text))

\* util.cos_sim(model.encode(phrase), model.encode(frase)) for the loaded
\* model: a fixed function of the two texts, one per embedder.
CosSim(phrase, frase) == (Weight(phrase) * embedder + Weight(frase)) % (MaxScore + 1)

MaxOf(sims) == CHOOSE m \in {sims[k] : k \in 1..Len(sims)} : \A k \in 1..Len(sims) : sims[k] <= m

\* argmax returning the last maximal index.
ArgMaxLast(sims) ==
    CHOOSE k \in 1..Len(sims) :
        /\ sims[k] = MaxOf(sims)
        /\ \A k2 \in 1..Len(sims) : sims[k2] = MaxOf(sims) => k2 <= k

\* similarities.argmax().item(): torch returns the index of the first
\* maximal value.
ArgMax(sims) ==
    CHOOSE k \in 1..Len(sims) :
        /\ sims[k] = MaxOf(sims)
        /\ \A k2 \in 1..Len(sims) : sims[k2] = MaxOf(sims) => k <= k2

\* if threshold is None: threshold = SIMILARITY_THRESHOLD
ResolveThreshold(th) == IF IsNone(th) THEN SIMILARITY_THRESHOLD ELSE th[1]

\* max_similarity >= threshold, wrongly tested with >
AcceptsStrict(max_similarity, th) == max_similarity > th

\* max_similarity >= threshold, wrongly tested with <=
AcceptsFlipped(max_similarity, th) == max_similarity <= th

\* max_similarity >= threshold
Accepts(max_similarity, th) == max_similarity >= th

\* The tuple detect_objection_semantic returns; the maximum of an empty
\* tensor raises.
detect_objection_semantic(phrase, th) ==
    LET t == ResolveThreshold(th)
        similarities == [k \in 1..Len(catalog) |-> CosSim(phrase, catalog[k].frase)]
    IN IF Len(catalog) = 0
       THEN [raised |-> TRUE, is_obj |-> FALSE, match |-> None, score |-> 0]
       ELSE LET max_similarity == MaxOf(similarities)
                max_index == ArgMax(similarities)
            IN IF Accepts(max_similarity, t)
               THEN [raised |-> FALSE, is_obj |-> TRUE,
                     match |-> Some(catalog[max_index]), score |-> max_similarity]
               ELSE [raised |-> FALSE, is_obj |-> FALSE,
                     match |-> None, score |-> max_similarity]

(***************************************************************************)
(* process_transcription                                                   *)
(***************************************************************************)
\* round(similarity, 3): to the nearest multiple of RoundUnit, a tie to the
\* even one
Round3(x) ==
    LET q == x \div RoundUnit
        r == x % RoundUnit
    IN IF 2 * r < RoundUnit THEN q * RoundUnit
       ELSE IF 2 * r > RoundUnit THEN (q + 1) * RoundUnit
       ELSE IF q % 2 = 0 THEN q * RoundUnit ELSE (q + 1) * RoundUnit

SemanticDetection(filename, chunk, obj_ref, similarity) ==
    [archivo_origen |-> filename,
     frase_original |-> chunk,
     patron_mas_cercano |-> obj_ref.frase,
     categoria |-> obj_ref.categoria,
     tipo |-> obj_ref.tipo,
     similitud |-> Round3(similarity)]

NewRun == [raised |-> FALSE, results |-> <<>>, processed |-> 0, discarded |-> 0,
           calls |-> <<>>]

\* The loop over the chunks of one turn that appends every chunk to results,
\* accepted or not.
RECURSIVE ProcessChunksKeepAll(_, _, _, _)
ProcessChunksKeepAll(acc, chunks, filename, th) ==
    IF chunks = <<>> \/ acc.raised THEN acc
    ELSE LET chunk == Head(chunks)
             d == detect_objection_semantic(chunk, th)
             ref == IF d.is_obj THEN d.match[1] ELSE catalog[1]
             call == [phrase |-> chunk, threshold |-> th, ret |-> d]
         IN IF d.raised THEN [acc EXCEPT !.raised = TRUE, !.processed = @ + 1]
            ELSE ProcessChunksKeepAll(
                     [acc EXCEPT !.processed = @ + 1,
                                 !.results = Append(@, SemanticDetection(filename, chunk, ref, d.score)),
                                 !.discarded = IF d.is_obj THEN @ ELSE @ + 1,
                                 !.calls = Append(@, call)],
                     Tail(chunks), filename, th)

\* for chunk in chunks: ... (lines 290-306)
RECURSIVE ProcessChunks(_, _, _, _)
ProcessChunks(acc, chunks, filename, th) ==
    IF chunks = <<>> \/ acc.raised THEN acc
    ELSE LET chunk == Head(chunks)
             d == detect_objection_semantic(chunk, th)
             call == [phrase |-> chunk, threshold |-> th, ret |-> d]
         IN IF d.raised THEN [acc EXCEPT !.raised = TRUE, !.processed = @ + 1]
            ELSE ProcessChunks(
                     IF d.is_obj
                     THEN [acc EXCEPT !.processed = @ + 1,
                                      !.results = Append(@, SemanticDetection(filename, chunk, d.match[1], d.score)),
                                      !.calls = Append(@, call)]
                     ELSE [acc EXCEPT !.processed = @ + 1,
                                      !.discarded = @ + 1,
                                      !.calls = Append(@, call)],
                     Tail(chunks), filename, th)

\* One iteration of "for turn in transcription" (lines 287-306)
ProcessTurn(acc, turn, filename, th) ==
    LET seg == segment_turn(turn.texto) IN
    IF seg.raised THEN [acc EXCEPT !.raised = TRUE]
    ELSE ProcessChunks(acc, seg.chunks, filename, th)

\* process_transcription when no external call fails
RECURSIVE ProcessTurnsFrom(_, _, _, _, _)
ProcessTurnsFrom(acc, transcription, k, filename, th) ==
    IF k > Len(transcription) \/ acc.raised THEN acc
    ELSE ProcessTurnsFrom(ProcessTurn(acc, transcription[k], filename, th),
                          transcription, k + 1, filename, th)

process_transcription(transcription, filename, th) ==
    ProcessTurnsFrom(NewRun, transcription, 1, filename, Some(ResolveThreshold(th)))

(***************************************************************************)
(* process_folder                                                          *)
(***************************************************************************)
\* sorted(folder.glob("*.txt"))
RECURSIVE SortedNames(_)
SortedNames(names) ==
    IF names = {} THEN <<>>
    ELSE LET least == CHOOSE x \in names : \A y \in names : x <= y
         IN <<least>> \o SortedNames(names \ {least})

\* What the except clause keeps of a file whose processing raised, had the
\* detections been added to all_detections as they were found.
KeptOfFailedFilePartial(partial) == partial

\* What the except clause keeps of a file whose processing raised: extend
\* (line 363) is not reached, the detections found so far are dropped.
KeptOfFailedFile(partial) == <<>>

CurrentFile == folder[txt_files[fi]]

semLocals == <<ti, results, chunks_processed, chunks_discarded, semCalls>>

semConfig == <<catalog, embedder, window_size, overlap, folder, threshold>>

\* process_folder is called: lines 335-351
EnterFolder ==
    /\ fpc = "idle"
    /\ txt_files' = SortedNames(DOMAIN folder)
    /\ fi' = 1
    /\ all_detections' = <<>>
    /\ error_log' = <<>>
    /\ IF DOMAIN folder = {}
       THEN fpc' = "done" /\ sem_returned' = Some(<<>>)
       ELSE fpc' = "file" /\ UNCHANGED sem_returned
    /\ UNCHANGED <<semConfig, semLocals, exceptSem>>

\* load_clean_transcription(file_path) inside the try: lines 353-357
LoadFile ==
    /\ fpc = "file"
    /\ fi <= Len(txt_files)
    /\ IF CurrentFile.readable
       THEN /\ fpc' = "turns"
            /\ ti' = 0
            /\ results' = <<>>
            /\ chunks_processed' = 0
            /\ chunks_discarded' = 0
            /\ semCalls' = <<>>
            /\ UNCHANGED <<fi, all_detections, error_log>>
       ELSE /\ fi' = fi + 1
            /\ all_detections' = all_detections \o KeptOfFailedFile(<<>>)
            /\ error_log' = Append(error_log, txt_files[fi])
            /\ UNCHANGED <<fpc, semLocals>>
    /\ UNCHANGED <<semConfig, txt_files, sem_returned, exceptSem>>

\* One turn of process_transcription (lines 287-306) inside the try of
\* process_folder; failed is an exception of the sentence splitter or of
\* the embedding model.
ProcessTurnStep ==
    /\ fpc = "turns"
    /\ ti < Len(CurrentFile.transcription)
    /\ \E failed \in BOOLEAN :
          LET acc == [raised |-> FALSE, results |-> results,
                      processed |-> chunks_processed, discarded |-> chunks_discarded,
                      calls |-> <<>>]
              run == ProcessTurn(acc, CurrentFile.transcription[ti + 1], txt_files[fi],
                                 Some(ResolveThreshold(threshold)))
          IN IF failed \/ run.raised
             THEN /\ fpc' = "file"
                  /\ fi' = fi + 1
                  /\ all_detections' = all_detections \o KeptOfFailedFile(results)
                  /\ error_log' = Append(error_log, txt_files[fi])
                  /\ UNCHANGED semLocals
             ELSE /\ ti' = ti + 1
                  /\ results' = run.results
                  /\ chunks_processed' = run.processed
                  /\ chunks_discarded' = run.discarded
                  /\ semCalls' = run.calls
                  /\ UNCHANGED <<fpc, fi, all_detections, error_log>>
    /\ UNCHANGED <<semConfig, txt_files, sem_returned, exceptSem>>

\* process_transcription returns and its result is added: lines 308-363
FinishFile ==
    /\ fpc = "turns"
    /\ ti = Len(CurrentFile.transcription)
    /\ all_detections' = all_detections \o results
    /\ fi' = fi + 1
    /\ fpc' = "file"
    /\ UNCHANGED <<semConfig, txt_files, sem_returned, semLocals, error_log, exceptSem>>

\* return all_detections (line 369)
ReturnFolder ==
    /\ fpc = "file"
    /\ fi > Len(txt_files)
    /\ fpc' = "done"
    /\ sem_returned' = Some(all_detections)
    /\ UNCHANGED <<semConfig, txt_files, fi, all_detections, semLocals, error_log, exceptSem>>

(***************************************************************************)
(* LLM validator (src/llm_check.py).  A detection is a dict: a function    *)
(* from its keys to Some(value), or to None for a null value.              *)
(***************************************************************************)
LLM_VALIDATION_KEYWORDS == { <<"Y", "E", "S">>, <<"S", "I">> }

UpperChar(c) ==
    CASE c = "y" -> "Y"
      [] c = "e" -> "E"
      [] c = "s" -> "S"
      [] c = "i" -> "I"
      [] c = "n" -> "N"
      [] c = "o" -> "O"
      [] OTHER -> c

\* str.upper()
Upper(s) == [k \in 1..Len(s) |-> UpperChar(s[k])]

\* detection.get(key, "")
Get(detection, key) ==
    IF key \in DOMAIN detection THEN detection[key] ELSE Some(<<>>)

\* OBJECTION_PROMPT_TEMPLATE.format(category=..., obj_type=..., phrase=...)
Prompt(category, obj_type, phrase) ==
    [category |-> category, obj_type |-> obj_type, phrase |-> phrase]

IsReply(outcome) == outcome.kind = "reply"

\* invoke_model called again after a failed call.
InvokeModelWithRetry(prompt, outcome) ==
    IF IsReply(outcome) THEN <<[prompt |-> prompt, outcome |-> outcome]>>
    ELSE <<[prompt |-> prompt, outcome |-> outcome], [prompt |-> prompt, outcome |-> outcome]>>

\* self.bedrock_runtime.invoke_model(...) (lines 109-112): the calls made for
\* one prompt, outcome being what the service does with the call
InvokeModel(prompt, outcome) == <<[prompt |-> prompt, outcome |-> outcome]>>

\* query_bedrock: the text of the reply stripped, None on any exception
query_bedrock(prompt, outcome) ==
    [requests |-> InvokeModel(prompt, outcome),
     response |-> IF IsReply(outcome) THEN Some(Strip(outcome.text)) ELSE None]

\* The reply accepted only when it is a keyword and nothing else.
EqualsKeyword(response_clean) == response_clean \in LLM_VALIDATION_KEYWORDS

\* any(keyword in response_clean for keyword in LLM_VALIDATION_KEYWORDS)
ContainsKeyword(response_clean) ==
    \E keyword \in LLM_VALIDATION_KEYWORDS : Search(keyword, response_clean)

\* dict(detection, respuesta_llm=..., validado_llm=...)
WithValidation(detection, response_clean, is_objection) ==
    [k \in DOMAIN detection \cup {"respuesta_llm", "validado_llm"} |->
        IF k = "respuesta_llm" THEN Some(response_clean)
        ELSE IF k = "validado_llm" THEN Some(is_objection)
        ELSE detection[k]]

\* The two keys written into the input itself, no copy made.
AddValidationInPlace(detection, response_clean, is_objection) ==
    [detection |-> WithValidation(detection, response_clean, is_objection),
     result |-> WithValidation(detection, response_clean, is_objection)]

\* result = detection.copy() and the two assignments on result (lines
\* 168-170): the input after them, and the result
AddValidation(detection, response_clean, is_objection) ==
    [detection |-> detection,
     result |-> WithValidation(detection, response_clean, is_objection)]

\* validate_objection: phrase[:50] and phrase[:60] in the log calls raise
\* TypeError when frase_original is null.  detection is the input as the
\* call leaves it.
validate_objection(detection, outcome) ==
    LET phrase == Get(detection, "frase_original")
        category == Get(detection, "categoria")
        obj_type == Get(detection, "tipo")
        q == query_bedrock(Prompt(category, obj_type, phrase), outcome)
    IN IF IsNone(phrase)
       THEN [raised |-> TRUE, value |-> None, requests |-> q.requests,
             detection |-> detection]
       ELSE IF IsNone(q.response)
       THEN [raised |-> FALSE, value |-> None, requests |-> q.requests,
             detection |-> detection]
       ELSE LET response_clean == Upper(Strip(q.response[1]))
                is_objection == ContainsKeyword(response_clean)
                added == AddValidation(detection, response_clean, is_objection)
            IN [raised |-> FALSE,
                value |-> Some(added.result),
                requests |-> q.requests,
                detection |-> added.detection]

\* What invoke_model can do with a call: raise ClientError, raise another
\* exception, answer a body json.loads or the indexing rejects, or answer a
\* text.
Replies ==
    { <<" ", "y", "e", "s", "\n">>,
      <<"Y", "E", "S", ",", " ", "T", "H", "I", "S", " ", "I", "S", " ", "A", "N", " ",
        "O", "B", "J", "E", "C", "T", "I", "O", "N">>,
      <<"N", "O", ",", " ", "T", "H", "I", "S", " ", "I", "S", " ", "N", "O", "T">> }

Outcomes ==
    {[kind |-> k, text |-> <<>>] : k \in {"client_error", "transport_error", "malformed_body"}}
        \cup {[kind |-> "reply", text |-> t] : t \in Replies}

\* Every answered detection kept, whatever its flag.
KeepsAnyAnswer(validation) ==
    /\ ~ validation.raised
    /\ ~ IsNone(validation.value)

\* validation and validation.get("validado_llm"), inside the try (line 203)
Keeps(validation) ==
    /\ ~ validation.raised
    /\ ~ IsNone(validation.value)
    /\ validation.value[1].validado_llm = Some(TRUE)

\* process_detections is called: lines 191-194
EnterValidation ==
    /\ lpc = "idle"
    /\ lpc' = "loop"
    /\ li' = 0
    /\ validated_results' = <<>>
    /\ UNCHANGED <<detections, requests, validations, llm_returned, exceptLlm>>

\* One iteration of the for loop: lines 196-208
ValidateStep ==
    /\ lpc = "loop"
    /\ li < Len(detections)
    /\ \E outcome \in Outcomes :
          LET validation == validate_objection(detections[li + 1], outcome) IN
          /\ requests' = requests \o validation.requests
          /\ detections' = [detections EXCEPT ![li + 1] = validation.detection]
          /\ validations' = Append(validations,
                                   [raised |-> validation.raised, value |-> validation.value])
          /\ validated_results' =
                IF Keeps(validation)
                THEN Append(validated_results, validation.value[1])
                ELSE validated_results
    /\ li' = li + 1
    /\ UNCHANGED <<lpc, llm_returned, exceptLlm>>

\* pd.DataFrame(validated_results), columns reordered: lines 210-217
ReturnValidation ==
    /\ lpc = "loop"
    /\ li = Len(detections)
    /\ lpc' = "done"
    /\ llm_returned' = Some(validated_results)
    /\ UNCHANGED <<detections, li, validated_results, requests, validations, exceptLlm>>

(***************************************************************************)
(* Conversation analyzer (src/analyzer.py).  A quotient of two integers is *)
(* the fraction in lowest terms [num, den]; 0.0 is [num |-> 0, den |-> 1]. *)
(***************************************************************************)
DEFAULT_CLIENT_SPEAKER == 2

RECURSIVE GCD(_, _)
GCD(a, b) == IF b = 0 THEN a ELSE GCD(b, a % b)

\* n / d for d > 0
Quotient(n, d) == LET g == GCD(n, d) IN [num |-> n \div g, den |-> d \div g]

Zero == [num |-> 0, den |-> 1]

\* a + b
QuotientSum(a, b) == Quotient(a.num * b.den + b.num * a.den, a.den * b.den)

\* sum(values) over integers
RECURSIVE SumOf(_)
SumOf(values) == IF values = <<>> THEN 0 ELSE Head(values) + SumOf(Tail(values))

\* sum(values) over quotients
RECURSIVE SumOfQuotients(_)
SumOfQuotients(values) ==
    IF values = <<>> THEN Zero ELSE QuotientSum(Head(values), SumOfQuotients(Tail(values)))

\* The keys of a Counter in insertion order
RECURSIVE FirstSeen(_)
FirstSeen(items) ==
    IF items = <<>> THEN <<>>
    ELSE LET before == FirstSeen(SubSeq(items, 1, Len(items) - 1))
             last == items[Len(items)]
         IN IF \E k \in 1..Len(before) : before[k] = last THEN before
            ELSE Append(before, last)

CountOf(items, x) == Cardinality({k \in 1..Len(items) : items[k] = x})

\* dict(Counter(obj.type for obj in objections)): type and count, in the
\* order the types first occur
count_objection_types(objections) ==
    LET types == [k \in 1..Len(objections) |-> objections[k].type]
        keys == FirstSeen(types)
    IN [k \in 1..Len(keys) |-> [type |-> keys[k], count |-> CountOf(types, keys[k])]]

\* The sum of the intensities, not divided.
total_intensity(objections) ==
    Quotient(SumOf([k \in 1..Len(objections) |-> objections[k].intensity]), 1)

\* _calculate_avg_intensity (lines 108-112)
calculate_avg_intensity(objections) ==
    IF objections = <<>> THEN Zero
    ELSE Quotient(SumOf([k \in 1..Len(objections) |-> objections[k].intensity]),
                  Len(objections))

\* Counter(all_types).most_common(1): the first key, in insertion order,
\* whose count is the largest
most_common(all_types) ==
    LET keys == FirstSeen(all_types)
        best == CHOOSE k \in 1..Len(keys) :
                    /\ \A j \in 1..Len(keys) :
                          CountOf(all_types, keys[j]) <= CountOf(all_types, keys[k])
                    /\ \A j \in 1..(k - 1) :
                          CountOf(all_types, keys[j]) < CountOf(all_types, keys[k])
    IN IF keys = <<>> THEN None ELSE Some(keys[best])

\* _build_result (lines 74-102); the optional keys are None when left out
build_result(file, conv, objections, speaker, settings) ==
    [file |-> file,
     total_turns |-> Len(conv),
     client_turns |-> Cardinality({k \in 1..Len(conv) :
                          conv[k].speaker_num.st = "ok" /\ conv[k].speaker_num.v = speaker}),
     objections_found |-> Len(objections),
     objection_types |-> count_objection_types(objections),
     avg_intensity |-> IF settings.calculate_intensity
                       THEN Some(calculate_avg_intensity(objections)) ELSE None,
     objections |-> IF settings.include_details THEN Some(objections) ELSE None,
     turns |-> IF settings.include_turns THEN Some(conv) ELSE None]

\* get_summary_statistics (lines 114-145)
get_summary_statistics(rs) ==
    IF rs = <<>>
    THEN [total_files |-> 0,
          total_objections |-> 0,
          avg_objections_per_file |-> Zero,
          most_common_objection |-> None,
          overall_avg_intensity |-> Zero]
    ELSE LET total_objections == SumOf([k \in 1..Len(rs) |-> rs[k].objections_found])
             all_types == Flatten([k \in 1..Len(rs) |->
                              [j \in 1..Len(rs[k].objection_types) |->
                                  rs[k].objection_types[j].type]])
             all_intensities == Flatten([k \in 1..Len(rs) |->
                                    IF IsNone(rs[k].avg_intensity) THEN <<>>
                                    ELSE <<rs[k].avg_intensity[1]>>])
             total == SumOfQuotients(all_intensities)
         IN [total_files |-> Len(rs),
             total_objections |-> total_objections,
             avg_objections_per_file |-> Quotient(total_objections, Len(rs)),
             most_common_objection |-> most_common(all_types),
             overall_avg_intensity |->
                 IF all_intensities = <<>> THEN Zero
                 ELSE Quotient(total.num, total.den * Len(all_intensities))]

\* analyze_multiple_files is called (lines 64-72)
EnterAnalysis ==
    /\ apc = "idle"
    /\ apc' = "file"
    /\ ai' = 0
    /\ reports' = <<>>
    /\ an_objections' = <<>>
    /\ UNCHANGED <<file_paths, client_arg, an_settings, an_returned, summary>>
    /\ UNCHANGED <<regexVars, exceptAn>>

\* analyze_file up to the call of the detector (lines 46-54):
\* parse_transcription raises, or the detector is entered on the parsed turns
ParseFile ==
    /\ apc = "file"
    /\ ai < Len(file_paths)
    /\ LET content == file_paths[ai + 1] IN
       \/ /\ ~ content.parsed
          /\ apc' = "raised"
          /\ UNCHANGED <<turns, client_speaker, dpc, i, all_objections, returned, lastDetect>>
       \/ /\ content.parsed
          /\ apc' = "detect"
          /\ turns' = content.turns
          /\ client_speaker' =
                IF IsNone(client_arg) THEN Some(DEFAULT_CLIENT_SPEAKER) ELSE client_arg
          /\ dpc' = "idle"
          /\ i' = 0
          /\ all_objections' = <<>>
          /\ returned' = None
          /\ lastDetect' = NoDetect
    /\ UNCHANGED <<file_paths, client_arg, an_settings, ai, reports, an_objections,
                   an_returned, summary, rules>>
    /\ UNCHANGED exceptAn

\* self.detector.detect_in_conversation(turns, client_speaker) (line 54)
DetectInFile ==
    /\ apc = "detect"
    /\ EnterDetect \/ ScanTurn \/ ReturnDetect

\* detect_in_conversation raised: the exception leaves analyze_file and the
\* comprehension of analyze_multiple_files
DetectRaised ==
    /\ apc = "detect"
    /\ dpc = "raised"
    /\ apc' = "raised"
    /\ UNCHANGED <<file_paths, client_arg, an_settings, ai, reports, an_objections,
                   an_returned, summary>>
    /\ UNCHANGED <<regexVars, exceptAn>>

\* return self._build_result(...) (lines 56-63) and the next file
BuildResult ==
    /\ apc = "detect"
    /\ dpc = "done"
    /\ reports' = Append(reports,
                         build_result(ai + 1, turns, returned[1], client_speaker[1],
                                      an_settings))
    /\ an_objections' = Append(an_objections, returned[1])
    /\ ai' = ai + 1
    /\ apc' = "file"
    /\ UNCHANGED <<file_paths, client_arg, an_settings, an_returned, summary>>
    /\ UNCHANGED <<regexVars, exceptAn>>

\* The comprehension is exhausted: the list of reports is returned
ReturnReports ==
    /\ apc = "file"
    /\ ai = Len(file_paths)
    /\ apc' = "done"
    /\ an_returned' = Some(reports)
    /\ UNCHANGED <<file_paths, client_arg, an_settings, ai, reports, an_objections, summary>>
    /\ UNCHANGED <<regexVars, exceptAn>>

\* get_summary_statistics called on the returned reports
Summarize ==
    /\ apc = "done"
    /\ IsNone(summary)
    /\ summary' = Some(get_summary_statistics(an_returned[1]))
    /\ UNCHANGED <<file_paths, client_arg, an_settings, apc, ai, reports, an_objections,
                   an_returned>>
    /\ UNCHANGED <<regexVars, exceptAn>>

RegexIdle ==
    /\ dpc = "idle"
    /\ i = 0
    /\ all_objections = <<>>
    /\ returned = None
    /\ lastDetect = NoDetect

(***************************************************************************)
(* Inputs of the semantic detector                                         *)
(***************************************************************************)
RulesSem ==
    << [type |-> "precio",
        categories |->
            << [category |-> "alta",
                patterns |-> << <<"(", "?", ":", "a", ")">>,
                                <<"b", "b">>,
                                <<"\\", "b", "a", " ", "b", "\\", "b">> >>],
               [category |-> "baja",
                patterns |-> << <<"a", "(", "?", ":", "b", ")", "?", " ", "b">> >>] >>],
       [type |-> "tiempo",
        categories |-> << [category |-> "alta", patterns |-> << <<"b">> >>] >>] >>

RulesNoPhrase ==
    << [type |-> "precio",
        categories |-> << [category |-> "alta", patterns |-> << <<"(", "?", ":", "a", ")">> >>] >>] >>

SemRules == {RulesSem, RulesNoPhrase}

Embedders == {1, 2}

Thresholds == {None, Some(0), Some(5), Some(MaxScore + 1)}

\* (SENTENCE_WINDOW_SIZE, SENTENCE_OVERLAP)
WindowSettings == {<<3, 1>>, <<2, 0>>, <<2, 2>>, <<1, 2>>}

TurnFive ==
    << <<"a", " ", "b">>, <<"b">>, <<"b", "b">>, <<" ", "b", "a", " ">>,
       <<"A", " ", "a">>, <<"b", "b">> >>

TurnTwo == << <<"a", " ", "b">>, <<"b", "b">> >>

TurnStop == << <<"A", " ", "a">> >>

Readable(transcription) == [readable |-> TRUE, transcription |-> transcription]

Unreadable == [readable |-> FALSE, transcription |-> <<>>]

FileContents ==
    { Unreadable,
      Readable(<<>>),
      Readable(<<[texto |-> TurnFive], [texto |-> TurnTwo]>>),
      Readable(<<[texto |-> TurnTwo], [texto |-> TurnStop], [texto |-> TurnTwo]>>) }

Folders == UNION {[1..n -> FileContents] : n \in 0..MaxFiles}

SemIdle ==
    /\ fpc = "idle"
    /\ txt_files = <<>>
    /\ fi = 1
    /\ all_detections = <<>>
    /\ sem_returned = None
    /\ ti = 0
    /\ results = <<>>
    /\ chunks_processed = 0
    /\ chunks_discarded = 0
    /\ semCalls = <<>>
    /\ error_log = <<>>

\* The state of the regex detector while another component runs.
RegexUnused ==
    /\ turns = <<>>
    /\ client_speaker = None
    /\ RegexIdle

\* The state of the semantic detector while another component runs.
SemUnused ==
    /\ catalog = <<>>
    /\ embedder = 1
    /\ window_size = 3
    /\ overlap = 1
    /\ folder = <<>>
    /\ threshold = None
    /\ SemIdle

LlmIdle ==
    /\ lpc = "idle"
    /\ li = 0
    /\ validated_results = <<>>
    /\ requests = <<>>
    /\ validations = <<>>
    /\ llm_returned = None

\* The state of the LLM validator while another component runs.
LlmUnused ==
    /\ detections = <<>>
    /\ LlmIdle

\* No call of segment_turn on its own.
SegUnused ==
    /\ seg_sents = <<>>
    /\ seg_result = None

\* No call of regex_to_phrase on its own.
PhraseUnused ==
    /\ pattern_in = <<>>
    /\ phrase_out = None
    /\ phrase_again = None

AnIdle ==
    /\ apc = "idle"
    /\ ai = 0
    /\ reports = <<>>
    /\ an_objections = <<>>
    /\ an_returned = None
    /\ summary = None

\* The analyzer is not running.
AnUnused ==
    /\ file_paths = <<>>
    /\ client_arg = None
    /\ an_settings = [calculate_intensity |-> TRUE, include_details |-> TRUE,
                      include_turns |-> FALSE]
    /\ AnIdle

\* The functions called on their own and the analyzer are not running.
FunctionsUnused == SegUnused /\ PhraseUnused /\ AnUnused

\* ObjectionEmbeddingDetector.__init__ (lines 106-118) and the arguments of
\* process_folder
InitSem ==
    /\ rules \in SemRules
    /\ catalog = build_objection_catalog(rules)
    /\ embedder \in Embedders
    /\ \E ws \in WindowSettings : window_size = ws[1] /\ overlap = ws[2]
    /\ folder \in Folders
    /\ threshold \in Thresholds
    /\ SemIdle
    /\ RegexUnused
    /\ LlmUnused
    /\ FunctionsUnused

NextSem == EnterFolder \/ LoadFile \/ ProcessTurnStep \/ FinishFile \/ ReturnFolder

SpecSem == InitSem /\ [][NextSem]_vars

(***************************************************************************)
(* Inputs of the regex detector                                            *)
(***************************************************************************)
SpeakerLabel(sp) == IF sp = 1 THEN "Speaker 1" ELSE "Speaker 2"

SpeakerNums == {1, 2}

\* A parsed turn; the timestamp of the n-th turn is n.
Turn(n, sp, text) ==
    [speaker |-> Ok(SpeakerLabel(sp)), speaker_num |-> Ok(sp),
     timestamp |-> Ok(n), text |-> Ok(text)]

\* Turn n with one attribute None or absent.
Malformed(turn, field, st) ==
    [turn EXCEPT ![field] =
        [st |-> st,
         v |-> CASE field = "text" -> <<>>
                 [] field = "speaker" -> ""
                 [] OTHER -> 0]]

TurnTexts == { <<"Á", "b", "c">>, <<"c", "d", "d">> }

WellFormed(n) ==
    {[k \in 1..n |-> Turn(k, f[k][1], f[k][2])] : f \in [1..n -> SpeakerNums \X TurnTexts]}

OneMalformed(n) ==
    {[conv EXCEPT ![k] = Malformed(conv[k], field, st)] :
        conv \in WellFormed(n), k \in 1..n,
        field \in {"text", "speaker_num", "timestamp"}, st \in {"none", "absent"}}

Conversations == UNION {WellFormed(n) \cup OneMalformed(n) : n \in 0..MaxTurns}

\* One text, one client turn, any catalog.
InitText ==
    /\ rules \in Catalogs
    /\ turns \in {<<Turn(1, CLIENT_SPEAKER_DEFAULT, text)>> : text \in SeqsUpTo(Alphabet, MaxTextLen)}
    /\ client_speaker = None
    /\ RegexIdle
    /\ SemUnused
    /\ LlmUnused
    /\ FunctionsUnused

\* A conversation of up to MaxTurns turns, at most one of them malformed.
InitConversation ==
    /\ rules = CatalogA
    /\ turns \in Conversations
    /\ client_speaker \in {None, Some(1)}
    /\ RegexIdle
    /\ SemUnused
    /\ LlmUnused
    /\ FunctionsUnused

InitRegex == InitText \/ InitConversation

NextRegex == EnterDetect \/ ScanTurn \/ ReturnDetect

SpecRegex == InitRegex /\ [][NextRegex]_vars

(***************************************************************************)
(* Inputs of the LLM validator                                             *)
(***************************************************************************)
Detection(file, chunk, frase, categoria, tipo, similitud) ==
    [archivo_origen |-> Some(file),
     frase_original |-> chunk,
     patron_mas_cercano |-> Some(frase),
     categoria |-> Some(categoria),
     tipo |-> Some(tipo),
     similitud |-> Some(similitud)]

\* Rows as process_folder writes them, one with a null frase_original and
\* one without the key categoria.
DetectionPool ==
    { Detection(1, Some(<<"a", " ", "b">>), <<"a", " ", "b">>, "precio", "alta", 8),
      Detection(2, None, <<"b", "b">>, "precio", "baja", 4),
      [archivo_origen |-> Some(3), frase_original |-> Some(<<"b", "b">>),
       tipo |-> Some("alta"), similitud |-> Some(4)] }

\* BedrockObjectionValidator.__init__ and the argument of process_detections
InitLlm ==
    /\ detections \in SeqsUpTo(DetectionPool, MaxDetections)
    /\ LlmIdle
    /\ rules = CatalogA
    /\ RegexUnused
    /\ SemUnused
    /\ FunctionsUnused

NextLlm == EnterValidation \/ ValidateStep \/ ReturnValidation

SpecLlm == InitLlm /\ [][NextLlm]_vars

(***************************************************************************)
(* Inputs of segment_turn and regex_to_phrase called on their own          *)
(***************************************************************************)
\* Texts of one sentence as nlp yields them: two words, one character (the
\* minimum length), two characters in one word, and blank.
Sentences == { <<"a", " ", "b">>, <<"c">>, <<"a", "b">>, <<" ">> }

SegSettings == WindowSettings \cup { <<3, 2>> }

InitSeg ==
    /\ seg_sents \in SeqsUpTo(Sentences, MaxSentences)
    /\ seg_result = None
    /\ \E ws \in SegSettings : window_size = ws[1] /\ overlap = ws[2]
    /\ rules = CatalogA
    /\ catalog = <<>>
    /\ embedder = 1
    /\ folder = <<>>
    /\ threshold = None
    /\ SemIdle
    /\ RegexUnused
    /\ LlmUnused
    /\ PhraseUnused
    /\ AnUnused

NextSeg == SegmentTurn

SpecSeg == InitSeg /\ [][NextSeg]_vars

PatternChars == { "\\", "b", "(", "?", ":", ")", "|", " ", "\t" }

InitPhrase ==
    /\ pattern_in \in SeqsUpTo(PatternChars, MaxPatternLen)
    /\ phrase_out = None
    /\ phrase_again = None
    /\ rules = CatalogA
    /\ RegexUnused
    /\ SemUnused
    /\ LlmUnused
    /\ SegUnused
    /\ AnUnused

NextPhrase == ToPhrase \/ ToPhraseAgain

SpecPhrase == InitPhrase /\ [][NextPhrase]_vars

(***************************************************************************)
(* Inputs of the analyzer                                                  *)
(***************************************************************************)
Parsed(conv) == [parsed |-> TRUE, turns |-> conv]

\* parse_transcription raises on the file
Unparseable == [parsed |-> FALSE, turns |-> <<>>]

\* The files: one that does not parse, an empty conversation, one with a
\* client turn matching several patterns, one with one client turn, one with
\* three client turns, one with a turn that lacks its speaker number.
FilePool ==
    { Unparseable,
      Parsed(<<>>),
      Parsed(<<Turn(1, 1, <<"c", "d", "d">>), Turn(2, 2, <<"Á", "b", "c">>)>>),
      Parsed(<<Turn(1, 2, <<"c", "d", "d">>)>>),
      Parsed(<<Turn(1, 2, <<"b", "d", "d">>), Turn(2, 2, <<"b", "c", "d">>),
               Turn(3, 2, <<"c", "d", "d">>)>>),
      Parsed(<<Malformed(Turn(1, 2, <<"c", "d", "d">>), "speaker_num", "absent")>>) }

AnSettings ==
    { [calculate_intensity |-> TRUE, include_details |-> TRUE, include_turns |-> FALSE],
      [calculate_intensity |-> FALSE, include_details |-> FALSE, include_turns |-> TRUE] }

InitAn ==
    /\ file_paths \in SeqsUpTo(FilePool, MaxReports)
    /\ client_arg \in {None, Some(1)}
    /\ an_settings \in AnSettings
    /\ AnIdle
    /\ rules \in {CatalogA, CatalogD}
    /\ RegexUnused
    /\ SemUnused
    /\ LlmUnused
    /\ SegUnused
    /\ PhraseUnused

NextAn ==
    \/ EnterAnalysis
    \/ ParseFile
    \/ DetectInFile
    \/ DetectRaised
    \/ BuildResult
    \/ ReturnReports
    \/ Summarize

SpecAn == InitAn /\ [][NextAn]_vars

(***************************************************************************)
(* Claims about the regex detector                                         *)
(***************************************************************************)
PatternsOf(t, c) == rules[t].categories[c].patterns

CategoryPositions ==
    {tc \in (1..Len(rules)) \X (1..4) : tc[2] <= Len(rules[tc[1]].categories)}

\* The patterns of category (t, c) that match the normalized text of the last call.
MatchingPatterns(t, c) ==
    {k \in 1..Len(PatternsOf(t, c)) :
        Search(PatternsOf(t, c)[k], normalize_text(lastDetect.text))}

HitsOf(t, c) ==
    {j \in 1..Len(lastDetect.searched) :
        /\ lastDetect.searched[j].t = t
        /\ lastDetect.searched[j].c = c
        /\ lastDetect.searched[j].hit}

IsHit(e) == e.hit

\* C1: detect_in_text emits at most one Objection per category of the
\* catalog: the Objections are, in catalog order, one per category that has
\* a matching pattern, each carrying the first matching pattern of its
\* category, and no pattern after that one is searched.
C1_FirstPatternPerCategory ==
    lastDetect.called =>
        LET hits == SelectSeq(lastDetect.searched, IsHit) IN
        /\ Len(lastDetect.objections) = Len(hits)
        /\ \A tc \in CategoryPositions :
              LET t == tc[1]
                  c == tc[2]
                  m == MatchingPatterns(t, c)
                  tested == {lastDetect.searched[j].k :
                                j \in {x \in 1..Len(lastDetect.searched) :
                                         /\ lastDetect.searched[x].t = t
                                         /\ lastDetect.searched[x].c = c}}
              IN /\ Cardinality(HitsOf(t, c)) <= 1
                 /\ (m = {}) => (HitsOf(t, c) = {} /\ tested = 1..Len(PatternsOf(t, c)))
                 /\ (m # {}) =>
                       LET first == CHOOSE k \in m : \A k2 \in m : k <= k2 IN
                       /\ Cardinality(HitsOf(t, c)) = 1
                       /\ \A j \in HitsOf(t, c) : lastDetect.searched[j].k = first
                       /\ tested = 1..first
        /\ \A j \in 1..Len(hits) :
              /\ lastDetect.objections[j].pattern = PatternsOf(hits[j].t, hits[j].c)[hits[j].k]
              /\ lastDetect.objections[j].type = rules[hits[j].t].type
              /\ lastDetect.objections[j].full_text = lastDetect.text

\* A text matched by two patterns of one category, the first of which is not
\* the first pattern of the list, has been scanned.
C1_Witness ==
    /\ lastDetect.called
    /\ \E tc \in CategoryPositions :
          /\ Cardinality(MatchingPatterns(tc[1], tc[2])) >= 2
          /\ 1 \notin MatchingPatterns(tc[1], tc[2])
          /\ Cardinality(HitsOf(tc[1], tc[2])) = 1

\* Turn n is a turn of the client (read from the turn, not from the detector).
SpeakerIsClient(n) ==
    /\ turns[n].speaker_num.st = "ok"
    /\ turns[n].speaker_num.v = (IF client_speaker = <<>> THEN CLIENT_SPEAKER_DEFAULT
                                 ELSE client_speaker[1])

FromTurn(o, n) ==
    /\ o.timestamp = (IF turns[n].timestamp.st = "ok" THEN <<turns[n].timestamp.v>> ELSE <<>>)
    /\ o.full_text = turns[n].text.v

\* C2: the Objections detect_in_conversation returns all come from turns of
\* the client speaker, none from a turn of another speaker, and they are the
\* per-turn detections of the client turns concatenated in turn order.
C2_OnlyClientTurns ==
    dpc = "done" =>
        /\ \A j \in 1..Len(returned[1]) :
              /\ \E n \in 1..Len(turns) : SpeakerIsClient(n) /\ FromTurn(returned[1][j], n)
              /\ \A n \in 1..Len(turns) :
                    returned[1][j].timestamp = PyVal(turns[n].timestamp) => SpeakerIsClient(n)
        /\ returned[1] =
              Flatten([n \in 1..Len(turns) |->
                  IF SpeakerIsClient(n) THEN detect_in_text(CallOf(n)).objections ELSE <<>>])

\* A returned scan of a conversation with a matching turn of each speaker.
C2_Witness ==
    /\ dpc = "done"
    /\ returned[1] # <<>>
    /\ \E n \in 1..Len(turns) :
          /\ ~ SpeakerIsClient(n)
          /\ turns[n].text.st = "ok"
          /\ \E tc \in CategoryPositions :
                \E k \in 1..Len(PatternsOf(tc[1], tc[2])) :
                    Search(PatternsOf(tc[1], tc[2])[k], normalize_text(turns[n].text.v))
    /\ \E n \in 1..Len(turns), m \in 1..Len(turns) :
          n < m /\ SpeakerIsClient(n) /\ SpeakerIsClient(m)

FirstChars(text, n) == [k \in 1..(IF Len(text) < n THEN Len(text) ELSE n) |-> text[k]]

\* C3: an Objection of the client turn at position n carries the first
\* CONTEXT_WINDOW_SIZE characters of the text of turn n-1 and of turn n+1,
\* and the empty text where that turn does not exist.
C3_ContextWindows ==
    \A j \in 1..Len(all_objections) :
        \E n \in 1..Len(turns) :
            /\ SpeakerIsClient(n)
            /\ FromTurn(all_objections[j], n)
            /\ all_objections[j].context_before =
                  (IF n = 1 THEN <<>> ELSE FirstChars(turns[n - 1].text.v, CONTEXT_WINDOW_SIZE))
            /\ all_objections[j].context_after =
                  (IF n = Len(turns) THEN <<>>
                   ELSE FirstChars(turns[n + 1].text.v, CONTEXT_WINDOW_SIZE))

\* The 4-turn conversation whose turn 2 is the only client turn: one
\* Objection, with the truncated texts of turns 1 and 3.
C3_Witness ==
    /\ dpc = "done"
    /\ Len(turns) = 4
    /\ \A n \in 1..4 : SpeakerIsClient(n) <=> n = 2
    /\ Len(returned[1]) = 1
    /\ Len(turns[1].text.v) > CONTEXT_WINDOW_SIZE
    /\ returned[1][1].context_before = <<"Á", "b">>
    /\ returned[1][1].context_after = <<"c", "d">>

MalformedTurn(n) ==
    \E f \in {"text", "speaker_num", "timestamp"} : turns[n][f].st # "ok"

\* C4: a malformed turn is skipped locally: the scan never aborts, and the
\* objections of the well-formed client turns are returned.
C4_MalformedTurnSkipped ==
    /\ dpc # "raised"
    /\ dpc = "done" =>
          \A n \in 1..Len(turns) :
              (SpeakerIsClient(n) /\ ~ MalformedTurn(n)) =>
                  \A tc \in CategoryPositions :
                      (\E k \in 1..Len(PatternsOf(tc[1], tc[2])) :
                          Search(PatternsOf(tc[1], tc[2])[k], normalize_text(turns[n].text.v)))
                      => \E j \in 1..Len(returned[1]) :
                            /\ FromTurn(returned[1][j], n)
                            /\ returned[1][j].type = rules[tc[1]].type

(***************************************************************************)
(* Claims about the semantic detector                                      *)
(***************************************************************************)
\* The threshold in force: the argument, or the configured default.
Thr == IF threshold = <<>> THEN SIMILARITY_THRESHOLD ELSE threshold[1]

SimsOf(phrase) == {CosSim(phrase, catalog[k].frase) : k \in 1..Len(catalog)}

MaxSimilarity(phrase) == CHOOSE m \in SimsOf(phrase) : \A x \in SimsOf(phrase) : x <= m

MaximalEntries(phrase) ==
    {k \in 1..Len(catalog) : CosSim(phrase, catalog[k].frase) = MaxSimilarity(phrase)}

\* C5: detect_objection_semantic accepts iff the maximum similarity is at
\* least the threshold; it returns a catalog entry of maximal similarity when
\* it accepts and none when it rejects, and the maximum as score either way.
C5_AcceptIffMaxAtLeastThreshold ==
    \A j \in 1..Len(semCalls) :
        LET call == semCalls[j]
            m == MaxSimilarity(call.phrase)
        IN /\ call.ret.is_obj <=> m >= Thr
           /\ call.ret.score = m
           /\ call.ret.is_obj =>
                 \E k \in MaximalEntries(call.phrase) : call.ret.match = <<catalog[k]>>
           /\ ~ call.ret.is_obj => call.ret.match = <<>>

\* A chunk whose maximum similarity equals the threshold was accepted, and
\* another chunk was rejected.
C5_Witness ==
    /\ \E j \in 1..Len(semCalls) :
          /\ semCalls[j].ret.is_obj
          /\ semCalls[j].ret.score = Thr
    /\ \E j \in 1..Len(semCalls) :
          /\ ~ semCalls[j].ret.is_obj
          /\ semCalls[j].ret.score < Thr

\* C6: when several catalog entries share the maximum similarity, the entry
\* returned is the one of smallest catalog index.
C6_FirstMaximalEntry ==
    \A j \in 1..Len(semCalls) :
        semCalls[j].ret.is_obj =>
            LET first == CHOOSE k \in MaximalEntries(semCalls[j].phrase) :
                             \A k2 \in MaximalEntries(semCalls[j].phrase) : k <= k2
            IN semCalls[j].ret.match = <<catalog[first]>>

\* An accepted chunk with two maximal catalog entries that differ.
C6_Witness ==
    \E j \in 1..Len(semCalls) :
        /\ semCalls[j].ret.is_obj
        /\ \E k1, k2 \in MaximalEntries(semCalls[j].phrase) :
              k1 < k2 /\ catalog[k1] # catalog[k2]

Range(seq) == {seq[k] : k \in 1..Len(seq)}

FileDone == fpc = "turns" /\ ti = Len(CurrentFile.transcription)

\* C7: a chunk accepted at the threshold in force is accepted at every lower
\* threshold, and the detections process_transcription returns for a file are
\* among those it returns at every lower threshold.
C7_ThresholdMonotonic ==
    /\ \A j \in 1..Len(semCalls) :
          semCalls[j].ret.is_obj =>
              \A t1 \in 0..Thr : detect_objection_semantic(semCalls[j].phrase, <<t1>>).is_obj
    /\ FileDone =>
          \A t1 \in 0..Thr :
              Range(results) \subseteq
                  Range(process_transcription(CurrentFile.transcription, txt_files[fi], <<t1>>).results)

\* A file with detections at the threshold in force and strictly more at a
\* lower threshold.
C7_Witness ==
    /\ FileDone
    /\ results # <<>>
    /\ \E t1 \in 0..Thr :
          Range(process_transcription(CurrentFile.transcription, txt_files[fi], <<t1>>).results)
              \ Range(results) # {}

\* The chunks of the turns process_transcription has consumed, in turn order
\* then chunk order.
ChunksSoFar ==
    Flatten([k \in 1..ti |-> segment_turn(CurrentFile.transcription[k].texto).chunks])

AcceptedSoFar == SelectSeq(ChunksSoFar, LAMBDA c : MaxSimilarity(c) >= Thr)

\* One record per accepted chunk, in order, none for a rejected chunk, and
\* the counters agree.
OnePerAcceptedChunk ==
    /\ Len(results) = Len(AcceptedSoFar)
    /\ \A j \in 1..Len(results) :
          /\ results[j].frase_original = AcceptedSoFar[j]
          /\ results[j].archivo_origen = txt_files[fi]
    /\ chunks_processed = Len(ChunksSoFar)
    /\ chunks_processed = chunks_discarded + Len(results)

\* C8 as stated: one record per accepted chunk, the counters agree, and no
\* returned record has a similarity below the threshold.
C8_NoRecordBelowThreshold ==
    fpc = "turns" =>
        /\ OnePerAcceptedChunk
        /\ \A j \in 1..Len(results) : results[j].similitud >= Thr

\* C8 amended: one record per accepted chunk, in turn order then chunk order,
\* none for a rejected chunk, and the counters agree; a record's chunk has a
\* maximum similarity of at least the threshold, and the similarity recorded
\* is that maximum rounded to three decimals, so it is below the threshold by
\* at most half a thousandth.
C8_OneRecordPerAcceptedChunk ==
    fpc = "turns" =>
        /\ OnePerAcceptedChunk
        /\ \A j \in 1..Len(results) :
              LET m == MaxSimilarity(results[j].frase_original) IN
              /\ m >= Thr
              /\ results[j].similitud % RoundUnit = 0
              /\ 2 * (results[j].similitud - m) <= RoundUnit
              /\ 2 * (m - results[j].similitud) <= RoundUnit
              /\ 2 * (Thr - results[j].similitud) <= RoundUnit

\* A file is finished with an accepted and a discarded chunk, one record
\* having a rounded similarity below the threshold.
C8_Witness ==
    /\ FileDone
    /\ chunks_discarded > 0
    /\ \E j \in 1..Len(results) : results[j].similitud < Thr

\* The detections of file name when nothing fails.
DetectionsOf(name) == process_transcription(folder[name].transcription, name, threshold).results

\* C9: process_folder returns, in sorted file order, the detections of the
\* files whose processing did not raise, and nothing of a file that raised.
C9_FailedFileIsolated ==
    /\ fpc = "done" =>
          /\ sem_returned[1] =
                Flatten([name \in 1..Cardinality(DOMAIN folder) |->
                    IF name \in Range(error_log) THEN <<>> ELSE DetectionsOf(name)])
          /\ \A name \in DOMAIN folder : ~ folder[name].readable => name \in Range(error_log)
    /\ \A j \in 1..Len(all_detections) : all_detections[j].archivo_origen \notin Range(error_log)

\* Three files, the second failed after a chunk of it was accepted (the
\* other two did not): the result holds detections of files 1 and 3 only.
C9_Witness ==
    /\ fpc = "done"
    /\ DOMAIN folder = 1..3
    /\ error_log = <<2>>
    /\ folder[2].readable
    /\ DetectionsOf(2) # <<>>
    /\ {sem_returned[1][j].archivo_origen : j \in 1..Len(sem_returned[1])} = {1, 3}

(***************************************************************************)
(* Claims about the LLM validator                                          *)
(***************************************************************************)
FieldOr(d, key) == IF key \in DOMAIN d THEN d[key] ELSE <<<<>>>>

\* C10: one model request per detection: after k detections the validator
\* has made exactly k invoke_model calls, the j-th for the j-th detection,
\* whether the call failed or not; at the return there are as many calls as
\* detections.
C10_OneRequestPerDetection ==
    /\ lpc # "idle" =>
          /\ Len(requests) = li
          /\ \A j \in 1..Len(requests) :
                /\ requests[j].prompt.phrase = FieldOr(detections[j], "frase_original")
                /\ requests[j].prompt.category = FieldOr(detections[j], "categoria")
                /\ requests[j].prompt.obj_type = FieldOr(detections[j], "tipo")
    /\ lpc = "done" => Len(requests) = Len(detections)

\* A batch of three detections has returned, with a failed call, an accepted
\* reply and a rejected reply.
C10_Witness ==
    /\ lpc = "done"
    /\ Len(detections) = 3
    /\ \E j \in 1..3 : requests[j].outcome.kind = "client_error"
    /\ \E j \in 1..3 : requests[j].outcome.kind = "transport_error"
    /\ \E j \in 1..3 : requests[j].outcome.kind = "reply"
    /\ Len(llm_returned[1]) = 1

RequestFailed(j) == requests[j].outcome.kind # "reply"

\* C11: a failed model request (client error, transport error, malformed
\* body) makes validate_objection return None without raising, and a
\* ValidatedDetection is returned only for a request that succeeded.
C11_FailureReturnsNone ==
    \A j \in 1..Len(validations) :
        /\ RequestFailed(j) =>
              /\ ~ validations[j].raised
              /\ IsNone(validations[j].value)
        /\ ~ IsNone(validations[j].value) => ~ RequestFailed(j)

IsSubstring(k, s) == \E a \in 0..Len(s) : \E b \in a..Len(s) : SubSeq(s, a + 1, b) = k

Normalized(reply) == Upper(Strip(reply))

ReplyYes ==
    <<"Y", "E", "S", ",", " ", "T", "H", "I", "S", " ", "I", "S", " ", "A", "N", " ",
      "O", "B", "J", "E", "C", "T", "I", "O", "N">>

ReplyNo == <<"N", "O", ",", " ", "T", "H", "I", "S", " ", "I", "S", " ", "N", "O", "T">>

\* C12: on a successful reply the validated flag is true iff the reply,
\* trimmed and uppercased, contains a configured keyword as a substring; the
\* stored response is that normalized reply.
C12_KeywordSubstring ==
    \A j \in 1..Len(validations) :
        ~ IsNone(validations[j].value) =>
            LET clean == Normalized(requests[j].outcome.text)
                result == validations[j].value[1]
            IN /\ result.respuesta_llm = Some(clean)
               /\ result.validado_llm =
                     Some(\E k \in LLM_VALIDATION_KEYWORDS : IsSubstring(k, clean))
               /\ clean = ReplyYes => result.validado_llm = Some(TRUE)
               /\ clean = ReplyNo => result.validado_llm = Some(FALSE)

\* A verbose reply that is not itself a keyword was accepted, a reply without
\* keyword was rejected, and a reply needing trimming and uppercasing was
\* accepted.
C12_Witness ==
    /\ lpc = "done"
    /\ Len(validations) = 3
    /\ ~ IsNone(validations[1].value)
    /\ requests[1].outcome.text = ReplyYes
    /\ validations[1].value[1].validado_llm = Some(TRUE)
    /\ ~ IsNone(validations[2].value)
    /\ requests[2].outcome.text = ReplyNo
    /\ validations[2].value[1].validado_llm = Some(FALSE)
    /\ ~ IsNone(validations[3].value)
    /\ requests[3].outcome.text # Normalized(requests[3].outcome.text)
    /\ validations[3].value[1].validado_llm = Some(TRUE)

IsValidated(v) ==
    /\ ~ v.raised
    /\ ~ IsNone(v.value)
    /\ v.value[1].validado_llm = Some(TRUE)

RECURSIVE ValidatedOf(_)
ValidatedOf(vs) ==
    IF vs = <<>> THEN <<>>
    ELSE LET rest == ValidatedOf(SubSeq(vs, 1, Len(vs) - 1))
             last == vs[Len(vs)]
         IN IF IsValidated(last) THEN Append(rest, last.value[1]) ELSE rest

\* C13: process_detections keeps exactly the detections whose validated
\* flag is true, in input order; a rejected detection, one without answer
\* and one whose validation raised are dropped, and every detection of the
\* batch is still validated.
C13_OnlyValidatedKept ==
    /\ validated_results = ValidatedOf(validations)
    /\ lpc # "idle" => Len(validations) = li
    /\ lpc = "done" =>
          /\ Len(validations) = Len(detections)
          /\ llm_returned = Some(ValidatedOf(validations))
          /\ \A k \in 1..Len(llm_returned[1]) :
                llm_returned[1][k].validado_llm = Some(TRUE)

\* A validation that raised and one without answer were followed by an
\* accepted detection, which alone is returned.
C13_Witness ==
    /\ lpc = "done"
    /\ Len(detections) = 3
    /\ validations[1].raised
    /\ ~ validations[2].raised
    /\ IsNone(validations[2].value)
    /\ IsValidated(validations[3])
    /\ llm_returned = Some(<<validations[3].value[1]>>)

\* A rejected detection was followed by an accepted one.
C13_RejectedThenAccepted ==
    /\ lpc = "done"
    /\ Len(detections) = 2
    /\ ~ IsNone(validations[1].value)
    /\ validations[1].value[1].validado_llm = Some(FALSE)
    /\ IsValidated(validations[2])
    /\ Len(llm_returned[1]) = 1

(***************************************************************************)
(* Claims about segment_turn                                               *)
(***************************************************************************)
SegDone == ~ IsNone(seg_result)

SegRetained == seg_result[1].sentences

SegChunks == seg_result[1].chunks

\* C14: for every window size and overlap, segment_turn ends without an
\* error and its window advances from the first sentences: a relevant first
\* window is the first chunk.
C14_MinimumStride ==
    SegDone =>
        /\ ~ seg_result[1].raised
        /\ LET first == Join(SubSeq(SegRetained, 1, window_size)) IN
           (SegRetained # <<>> /\ is_relevant(first)) =>
               (SegChunks # <<>> /\ SegChunks[1] = first)

\* C15: with window size 3 and overlap 1, five retained sentences give the
\* two candidate windows sentences[0:3] and sentences[2:5] and no other; the
\* chunks are those of the two that are relevant.
C15_TwoWindows ==
    (SegDone /\ window_size = 3 /\ overlap = 1 /\ Len(SegRetained) = 5) =>
        SegChunks = SelectSeq(<<Join(SubSeq(SegRetained, 1, 3)),
                                Join(SubSeq(SegRetained, 3, 5))>>, is_relevant)

\* C16: with fewer retained sentences than the window size there is at most
\* one chunk, the join of all retained sentences.
C16_ShortListOneChunk ==
    (SegDone /\ Len(SegRetained) < window_size) =>
        /\ Len(SegChunks) <= 1
        /\ SegChunks # <<>> => SegChunks[1] = Join(SegRetained)

\* C17: the retained sentences are the trimmed sentences whose length is at
\* least the configured minimum; one of exactly that length is retained.
C17_EqualMinimumRetained ==
    SegDone =>
        SegRetained = SelectSeq([k \in 1..Len(seg_sents) |-> Strip(seg_sents[k])],
                                LAMBDA x : Len(x) >= MIN_SENTENCE_LENGTH)

(***************************************************************************)
(* Claims about the phrase catalog                                         *)
(***************************************************************************)
Metacharacters == {"\\", "(", ")", "?", "|"}

IsWhitespace(c) == c \in {" ", "\t", "\n"}

\* C18: the phrase regex_to_phrase returns holds no backslash, parenthesis,
\* question mark or bar, no leading, trailing or repeated whitespace, and
\* regex_to_phrase applied to it returns it unchanged.
C18_CleanAndIdempotent ==
    /\ ~ IsNone(phrase_out) =>
          LET out == phrase_out[1] IN
          /\ \A k \in 1..Len(out) : out[k] \notin Metacharacters
          /\ out # <<>> => (~ IsWhitespace(out[1]) /\ ~ IsWhitespace(out[Len(out)]))
          /\ \A k \in 1..(Len(out) - 1) : ~ (IsWhitespace(out[k]) /\ IsWhitespace(out[k + 1]))
    /\ ~ IsNone(phrase_again) => phrase_again = phrase_out

\* A pattern with a bar and surrounding whitespace gave a non-empty phrase,
\* and regex_to_phrase has run on that phrase.
C18_Witness ==
    /\ ~ IsNone(phrase_again)
    /\ \E k \in 1..Len(pattern_in) : pattern_in[k] = "|"
    /\ \E k \in 1..Len(pattern_in) : pattern_in[k] = "\t"
    /\ Len(phrase_out[1]) = 3
    /\ Len(pattern_in) = MaxPatternLen

\* C19: every catalog entry carries the type and the category under which
\* its pattern is stored in the Pattern Catalog (type -> category ->
\* patterns, as detect_in_text reads it).
C19_SameLabels ==
    \A k \in 1..Len(catalog) :
        \E t \in 1..Len(rules) :
            \E c \in 1..Len(rules[t].categories) :
                \E p \in 1..Len(rules[t].categories[c].patterns) :
                    /\ catalog[k].frase = regex_to_phrase(rules[t].categories[c].patterns[p])
                    /\ catalog[k].tipo = rules[t].type
                    /\ catalog[k].categoria = rules[t].categories[c].category

(***************************************************************************)
(* Claims about the analyzer                                               *)
(***************************************************************************)
IntensitiesOf(objections) == [k \in 1..Len(objections) |-> objections[k].intensity]

\* q is the arithmetic mean of the integers values (a non-empty sequence)
IsMeanOf(q, values) ==
    /\ q.den > 0
    /\ q.num * Len(values) = SumOf(values) * q.den

EmptySummary ==
    [total_files |-> 0,
     total_objections |-> 0,
     avg_objections_per_file |-> Zero,
     most_common_objection |-> None,
     overall_avg_intensity |-> Zero]

\* C20: the average intensity of a report is the arithmetic mean of the
\* intensities of the objections detected in its file, and exactly 0.0 when
\* there are none; the summary of an empty list of reports has zero totals
\* and averages and no most common type.
C20_AverageIntensity ==
    /\ \A k \in 1..Len(reports) :
          ~ IsNone(reports[k].avg_intensity) =>
              IF an_objections[k] = <<>>
              THEN reports[k].avg_intensity = Some(Zero)
              ELSE IsMeanOf(reports[k].avg_intensity[1], IntensitiesOf(an_objections[k]))
    /\ (~ IsNone(summary) /\ an_returned = Some(<<>>)) => summary = Some(EmptySummary)

\* Reports were returned, one of a file without objections with average 0.0
\* and one of a file whose objections differ in intensity.
C20_Witness ==
    /\ apc = "done"
    /\ \E k \in 1..Len(reports) :
          /\ an_objections[k] = <<>>
          /\ reports[k].avg_intensity = Some(Zero)
    /\ \E k \in 1..Len(reports) :
          /\ Len(an_objections[k]) = 3
          /\ reports[k].avg_intensity = Some([num |-> 7, den |-> 3])

\* The summary of an empty list of reports was computed.
C20_EmptySummaryReached ==
    /\ file_paths = <<>>
    /\ summary = Some(EmptySummary)

\* The types of the returned reports in aggregation order: file by file, each
\* file's types in the order of its per-type counts.
TypesInOrder(rs) ==
    FirstSeen(Flatten([k \in 1..Len(rs) |->
        [j \in 1..Len(rs[k].objection_types) |-> rs[k].objection_types[j].type]]))

\* The occurrences of a type summed over the reports' per-type counts.
TotalOccurrences(rs, type) ==
    SumOf(Flatten([k \in 1..Len(rs) |->
        Flatten([j \in 1..Len(rs[k].objection_types) |->
            IF rs[k].objection_types[j].type = type
            THEN <<rs[k].objection_types[j].count>> ELSE <<>>])]))

\* C21: the most common objection of the summary is the type with the
\* largest number of occurrences summed over all files, the first
\* encountered among the types that tie.
C21_MostCommonByOccurrences ==
    ~ IsNone(summary) =>
        LET rs == an_returned[1]
            keys == TypesInOrder(rs)
            winner == summary[1].most_common_objection
        IN IF keys = <<>> THEN IsNone(winner)
           ELSE \E k \in 1..Len(keys) :
                   /\ winner = Some(keys[k])
                   /\ \A j \in 1..Len(keys) :
                         TotalOccurrences(rs, keys[j]) <= TotalOccurrences(rs, keys[k])
                   /\ \A j \in 1..(k - 1) :
                         TotalOccurrences(rs, keys[j]) < TotalOccurrences(rs, keys[k])

(***************************************************************************)
(* Claims about the configuration of the semantic detector                 *)
(***************************************************************************)
\* The derived catalog is empty, the threshold is outside [0, 1], or the
\* window does not advance.
ConfigDefect ==
    \/ catalog = <<>>
    \/ ResolveThreshold(threshold) \notin 0..MaxScore
    \/ window_size - overlap = 0

\* C22: a configuration defect is reported when the detector is constructed:
\* with a defect no chunk or file is ever processed, no per-file failure is
\* logged for it and process_folder returns nothing.
C22_ConfigDefectsFailFast ==
    ConfigDefect =>
        /\ fpc = "idle"
        /\ chunks_processed = 0
        /\ error_log = <<>>
        /\ IsNone(sem_returned)

\* The zero-length window was swallowed as the failure of a file.
C22_ZeroWindowSwallowed ==
    /\ window_size - overlap = 0
    /\ catalog # <<>>
    /\ ResolveThreshold(threshold) \in 0..MaxScore
    /\ fpc = "done"
    /\ error_log # <<>>

(***************************************************************************)
(* Claims about batches                                                    *)
(***************************************************************************)
\* The file parses and none of its turns lacks its speaker number.
Analysable(content) ==
    /\ content.parsed
    /\ \A k \in 1..Len(content.turns) : content.turns[k].speaker_num.st = "ok"

\* C23: a file whose parsing or analysis raises does not abort
\* analyze_multiple_files; the reports of the other files are returned.
C23_AnalysisFailureIsolated ==
    /\ apc # "raised"
    /\ apc = "done" =>
          Len(an_returned[1]) =
              Cardinality({k \in 1..Len(file_paths) : Analysable(file_paths[k])})

\* The batch was aborted by its second file after the first was analysed.
C23_AbortedAfterFirstFile ==
    /\ apc = "raised"
    /\ Len(file_paths) = 3
    /\ Len(reports) = 1
    /\ ~ file_paths[2].parsed
    /\ Analysable(file_paths[3])

(***************************************************************************)
(* Claims about the validated record                                       *)
(***************************************************************************)
AddedKeys == {"respuesta_llm", "validado_llm"}

\* The j-th returned record is the j-th detection plus the two added keys.
InputPlusTwo(j) ==
    LET d == detections[j]
        r == validations[j].value[1]
    IN /\ DOMAIN d \cap AddedKeys = {}
       /\ DOMAIN r = DOMAIN d \cup AddedKeys
       /\ \A k \in DOMAIN d : r[k] = d[k]
       /\ r.validado_llm \in {Some(TRUE), Some(FALSE)}

\* C24: validate_objection never changes its input, and the record it
\* returns has every field of the input with the same value plus exactly the
\* normalized response and the validated flag, however often the same
\* detection is validated.
C24_InputPlusTwoFields ==
    /\ [](\A j \in 1..Len(validations) :
             ~ IsNone(validations[j].value) => InputPlusTwo(j))
    /\ [][detections' = detections]_vars

\* The same detection was validated three times with different replies and
\* is still the record it was.
C24_Witness ==
    /\ lpc = "done"
    /\ Len(detections) = 3
    /\ detections[1] = detections[2]
    /\ detections[2] = detections[3]
    /\ DOMAIN detections[1] \cap AddedKeys = {}
    /\ \A j \in 1..3 : ~ IsNone(validations[j].value)
    /\ validations[1].value[1].validado_llm = Some(TRUE)
    /\ validations[2].value[1].validado_llm = Some(FALSE)
    /\ validations[3].value[1].respuesta_llm # validations[1].value[1].respuesta_llm

====
